---- MODULE Spec2Model ----
(***************************************************************************)
(* Model of xen/arch/x86/crash.c: the crash shutdown sequence.             *)
(*                                                                         *)
(* machine_crash_shutdown() runs on the crashing processor (the            *)
(* coordinator): nmi_shootdown_cpus() arms do_nmi_crash() as the NMI       *)
(* callback, broadcasts an NMI, polls waiting_to_crash for at most 1000    *)
(* one-millisecond delays, quiesces the shared devices, and the crash      *)
(* metadata record is then written.  do_nmi_crash() runs on every other    *)
(* processor that takes the NMI; it never returns.                         *)
(***************************************************************************)
EXTENDS Integers, FiniteSets, Sequences

(* ------------------------------ bounds -------------------------------- *)

\* Number of processors of the modelled machine.
NCPU == 4

\* Highest processor id that is present (ever brought up) in the general
\* specification Spec; the processors above it stay offline and take no NMI.
MaxPresent == 1

\* Total number of times the NMI latch is cleared while do_nmi_crash is
\* already running somewhere (each one re-enters the handler).
MaxReentry == 1

(* ------------------------- program constants -------------------------- *)

\* crash.c:143  msecs = 1000
MSECS == 1000

CPUS == 0 .. (NCPU - 1)

\* current_local_apic_mode() results (crash.c:90-113).
ApicModes == {"APIC_MODE_X2APIC", "APIC_MODE_XAPIC", "APIC_MODE_DISABLED"}

VARIABLES
    cpu,              \* nmi_shootdown_cpus: cpu = smp_processor_id()
    cpu_online_map,   \* set of online processors
    crashing_cpu,     \* static unsigned int crashing_cpu
    waiting_to_crash, \* static cpumask_t waiting_to_crash
    crash_save_done,  \* per-cpu bool crash_save_done
    nmi_callback,     \* handler registered by set_nmi_callback()
    idt_nmi,          \* per-cpu binding of idt[X86_EXC_NMI]
    idt_mc_ist,       \* per-cpu IST of idt[X86_EXC_MC]: TRUE = dedicated stack
    nmi_pending,      \* per-cpu: a broadcast NMI is pending, not yet taken
    self_nmi,         \* per-cpu: self-targeted NMI queued in the ICR
    lapic_enabled,    \* per-cpu: local APIC not yet shut by __stop_this_cpu()
    pc,               \* position of the coordinator in machine_crash_shutdown
    msecs,            \* nmi_shootdown_cpus: unsigned long msecs
    rpc,              \* per-cpu position in do_nmi_crash ("running" = not in it)
    entered,          \* per-cpu number of entries into do_nmi_crash
    branch,           \* per-cpu: what the test of line 50 chose on this entry
    apic_mode,        \* per-cpu: what current_local_apic_mode() returned (line 90)
    reentries,        \* total number of re-entries into do_nmi_crash
    saved,            \* per-cpu number of kexec_crash_save_cpu() calls
    done_writes,      \* per-cpu number of stores to crash_save_done
    calls,            \* collaborator calls made by the coordinator, in order
    report,           \* what the printk of lines 157-161 reported
    pcidevs_lock,     \* device-list lock as the coordinator found or left it:
                      \* "free", "held_by_other" or "held_by_coordinator"
    x2apic_enabled,   \* global x2apic_enabled as recorded at line 179
    info              \* crash_xen_info_t: number of stores to each field

vars == << cpu, cpu_online_map, crashing_cpu, waiting_to_crash, crash_save_done,
           nmi_callback, idt_nmi, idt_mc_ist, nmi_pending, self_nmi,
           lapic_enabled, pc, msecs, rpc, entered, branch, apic_mode,
           reentries, saved,
           done_writes, calls, report, pcidevs_lock, x2apic_enabled, info >>

coordVars == << cpu, crashing_cpu, nmi_callback, pc, msecs, calls, report,
                pcidevs_lock, x2apic_enabled, info >>

remoteVars == << crash_save_done, self_nmi, rpc, entered, branch, apic_mode,
                 reentries, saved, done_writes >>

(* -------------------------- initial state ----------------------------- *)

\* State when machine_crash_shutdown() is called: statics are zero, the
\* crashing processor and the online map are whatever they are at the crash.
Quiescent ==
    /\ crashing_cpu = 0
    /\ waiting_to_crash = {}
    /\ crash_save_done = [c \in CPUS |-> FALSE]
    /\ nmi_callback = "dummy_nmi_callback"
    /\ idt_nmi = [c \in CPUS |-> "nmi"]
    /\ idt_mc_ist = [c \in CPUS |-> TRUE]
    /\ nmi_pending = [c \in CPUS |-> FALSE]
    /\ self_nmi = [c \in CPUS |-> 0]
    /\ lapic_enabled = [c \in CPUS |-> TRUE]
    /\ pc = "start"
    /\ msecs = 0
    /\ rpc = [c \in CPUS |-> "running"]
    /\ entered = [c \in CPUS |-> 0]
    /\ branch = [c \in CPUS |-> "none"]
    /\ apic_mode = [c \in CPUS |-> "unread"]
    /\ reentries = 0
    /\ saved = [c \in CPUS |-> 0]
    /\ done_writes = [c \in CPUS |-> 0]
    /\ calls = << >>
    /\ report = [printed |-> "none", cpus |-> {}]
    /\ pcidevs_lock = "free"
    /\ x2apic_enabled = FALSE
    /\ info = [xen_phys_start |-> 0, dom0_pfn_to_mfn_frame_list_list |-> 0]

\* The processors present in the general specification.
PresentCpus == {c \in CPUS : c <= MaxPresent}

\* Any present processor crashes, itself marked online or not, with any set
\* of the present processors online.
Init ==
    /\ cpu \in PresentCpus
    /\ cpu_online_map \in SUBSET PresentCpus
    /\ Quiescent

\* The four-processor scenarios: processors 0..3 online, processor 0 crashes.
InitScenario ==
    /\ cpu = 0
    /\ cpu_online_map = {c \in CPUS : c <= 3}
    /\ Quiescent

(* ------------------- collaborators outside crash.c -------------------- *)

\* __stop_this_cpu(): disables the local APIC of processor c and marks it
\* out of service (removed from the online map).
StopThisCpuOnline(c) == cpu_online_map \ {c}

StopThisCpuLapic(c) == [lapic_enabled EXCEPT ![c] = FALSE]

(* ------------------ nmi_shootdown_cpus (coordinator) ------------------ *)

\* Variant of RecordCrashingCpu that leaves crashing_cpu at its old value.
RecordCrashingCpuStale ==
    /\ pc = "start"
    /\ calls' = Append(calls, "disable_lapic_nmi_watchdog")
    /\ pc' = "mask"
    /\ UNCHANGED << cpu, cpu_online_map, crashing_cpu, waiting_to_crash,
                    nmi_callback, idt_nmi, idt_mc_ist, nmi_pending,
                    lapic_enabled, msecs, report, pcidevs_lock,
                    x2apic_enabled, info >>
    /\ UNCHANGED remoteVars

\* crash.c:122-129  disable_lapic_nmi_watchdog(); local_irq_disable();
\*                  crashing_cpu = cpu; local_irq_count(crashing_cpu) = 0;
RecordCrashingCpu ==
    /\ pc = "start"
    /\ crashing_cpu' = cpu
    /\ calls' = Append(calls, "disable_lapic_nmi_watchdog")
    /\ pc' = "mask"
    /\ UNCHANGED << cpu, cpu_online_map, waiting_to_crash, nmi_callback, idt_nmi,
                    idt_mc_ist, nmi_pending, lapic_enabled, msecs, report,
                    pcidevs_lock, x2apic_enabled, info >>
    /\ UNCHANGED remoteVars

\* Mutant of InitialWaiting: the crashing processor is not masked out.
InitialWaitingWithSelf == cpu_online_map

\* crash.c:131  cpumask_andnot(&waiting_to_crash, &cpu_online_map, cpumask_of(cpu))
InitialWaiting == cpu_online_map \ {cpu}

ComputeWaiting ==
    /\ pc = "mask"
    /\ waiting_to_crash' = InitialWaiting
    /\ pc' = "gate"
    /\ UNCHANGED << cpu, cpu_online_map, crashing_cpu, nmi_callback, idt_nmi,
                    idt_mc_ist, nmi_pending, lapic_enabled, msecs, calls,
                    report,
                    pcidevs_lock, x2apic_enabled, info >>
    /\ UNCHANGED remoteVars

\* crash.c:137-138  _set_gate_lower(&idt[X86_EXC_NMI], ..., &trap_nop);
\*                  set_ist(&idt[X86_EXC_MC], IST_NONE);
ReprogramVectors ==
    /\ pc = "gate"
    /\ idt_nmi' = [idt_nmi EXCEPT ![cpu] = "trap_nop"]
    /\ idt_mc_ist' = [idt_mc_ist EXCEPT ![cpu] = FALSE]
    /\ pc' = "callback"
    /\ UNCHANGED << cpu, cpu_online_map, crashing_cpu, waiting_to_crash,
                    nmi_callback, nmi_pending, lapic_enabled, msecs, calls,
                    report, pcidevs_lock, x2apic_enabled, info >>
    /\ UNCHANGED remoteVars

\* Variant of SetNmiCallback that moves on without registering do_nmi_crash.
SetNmiCallbackSkipped ==
    /\ pc = "callback"
    /\ pc' = "send"
    /\ UNCHANGED << cpu, cpu_online_map, crashing_cpu, waiting_to_crash,
                    nmi_callback, idt_nmi, idt_mc_ist, nmi_pending,
                    lapic_enabled, msecs, calls, report, pcidevs_lock,
                    x2apic_enabled, info >>
    /\ UNCHANGED remoteVars

\* crash.c:140  set_nmi_callback(do_nmi_crash)
SetNmiCallback ==
    /\ pc = "callback"
    /\ nmi_callback' = "do_nmi_crash"
    /\ pc' = "send"
    /\ UNCHANGED << cpu, cpu_online_map, crashing_cpu, waiting_to_crash, idt_nmi,
                    idt_mc_ist, nmi_pending, lapic_enabled, msecs, calls,
                    report,
                    pcidevs_lock, x2apic_enabled, info >>
    /\ UNCHANGED remoteVars

\* smp_send_nmi_allbutself(): the processors the broadcast reaches.
NmiTargets == cpu_online_map \ {cpu}

\* crash.c:141-143  smp_send_nmi_allbutself(); msecs = 1000;
SendNmi ==
    /\ pc = "send"
    /\ nmi_pending' = [c \in CPUS |-> nmi_pending[c] \/ (c \in NmiTargets)]
    /\ msecs' = MSECS
    /\ pc' = "poll"
    /\ UNCHANGED << cpu, cpu_online_map, crashing_cpu, waiting_to_crash,
                    nmi_callback, idt_nmi, idt_mc_ist, lapic_enabled, calls,
                    report, pcidevs_lock, x2apic_enabled, info >>
    /\ UNCHANGED remoteVars

\* Mutant of PollContinue: the loop does not stop when the set is empty.
PollContinueIgnoreEmpty == msecs # 0

\* Mutant of PollContinue: the loop gives up one iteration early.
PollContinueShort == waiting_to_crash # {} /\ msecs > 1

\* crash.c:144  while ( !cpumask_empty(&waiting_to_crash) && msecs )
PollContinue == waiting_to_crash # {} /\ msecs # 0

PollTest ==
    /\ pc = "poll"
    /\ pc' = IF PollContinue THEN "mdelay" ELSE "console"
    /\ UNCHANGED << cpu, cpu_online_map, crashing_cpu, waiting_to_crash,
                    nmi_callback, idt_nmi, idt_mc_ist, nmi_pending,
                    lapic_enabled,
                    msecs, calls, report, pcidevs_lock, x2apic_enabled, info >>
    /\ UNCHANGED remoteVars

\* Mutant of PollDelay: the countdown is not decremented.
PollDelayNoDecrement ==
    /\ pc = "mdelay"
    /\ pc' = "poll"
    /\ UNCHANGED << cpu, cpu_online_map, crashing_cpu, waiting_to_crash,
                    nmi_callback, idt_nmi, idt_mc_ist, nmi_pending,
                    lapic_enabled,
                    msecs, calls, report, pcidevs_lock, x2apic_enabled, info >>
    /\ UNCHANGED remoteVars

\* crash.c:146-147  mdelay(1); msecs--;
PollDelay ==
    /\ pc = "mdelay"
    /\ msecs' = msecs - 1
    /\ pc' = "poll"
    /\ UNCHANGED << cpu, cpu_online_map, crashing_cpu, waiting_to_crash,
                    nmi_callback, idt_nmi, idt_mc_ist, nmi_pending,
                    lapic_enabled,
                    calls, report, pcidevs_lock, x2apic_enabled, info >>
    /\ UNCHANGED remoteVars

\* crash.c:154  console_force_unlock()
ConsoleForceUnlock ==
    /\ pc = "console"
    /\ calls' = Append(calls, "console_force_unlock")
    /\ pc' = "report"
    /\ UNCHANGED << cpu, cpu_online_map, crashing_cpu, waiting_to_crash,
                    nmi_callback, idt_nmi, idt_mc_ist, nmi_pending,
                    lapic_enabled,
                    msecs, report, pcidevs_lock, x2apic_enabled, info >>
    /\ UNCHANGED remoteVars

\* crash.c:157  if ( cpumask_empty(&waiting_to_crash) )
AllShotDown == waiting_to_crash = {}

ReportTest ==
    /\ pc = "report"
    /\ pc' = IF AllShotDown THEN "print_all" ELSE "print_failed"
    /\ UNCHANGED << cpu, cpu_online_map, crashing_cpu, waiting_to_crash,
                    nmi_callback, idt_nmi, idt_mc_ist, nmi_pending,
                    lapic_enabled,
                    msecs, calls, report, pcidevs_lock, x2apic_enabled, info >>
    /\ UNCHANGED remoteVars

\* crash.c:158  printk("Shot down all CPUs\n")
PrintAll ==
    /\ pc = "print_all"
    /\ report' = [printed |-> "all", cpus |-> {}]
    /\ calls' = Append(calls, "printk")
    /\ pc' = "iommu"
    /\ UNCHANGED << cpu, cpu_online_map, crashing_cpu, waiting_to_crash,
                    nmi_callback, idt_nmi, idt_mc_ist, nmi_pending,
                    lapic_enabled,
                    msecs, pcidevs_lock, x2apic_enabled, info >>
    /\ UNCHANGED remoteVars

\* crash.c:160-161  the processors "%*pbl" lists: the mask is read again
\* when printk formats it.
FailedCpus == waiting_to_crash

\* crash.c:160-161  printk("Failed to shoot down CPUs {%*pbl}\n", ...)
PrintFailed ==
    /\ pc = "print_failed"
    /\ report' = [printed |-> "failed", cpus |-> FailedCpus]
    /\ calls' = Append(calls, "printk")
    /\ pc' = "iommu"
    /\ UNCHANGED << cpu, cpu_online_map, crashing_cpu, waiting_to_crash,
                    nmi_callback, idt_nmi, idt_mc_ist, nmi_pending,
                    lapic_enabled,
                    msecs, pcidevs_lock, x2apic_enabled, info >>
    /\ UNCHANGED remoteVars

\* Variant of IommuCrashShutdown that skips the call when processors
\* failed to stop.
IommuCrashShutdownOnSuccess ==
    /\ pc = "iommu"
    /\ calls' = IF report.printed = "all"
                THEN Append(calls, "iommu_crash_shutdown")
                ELSE calls
    /\ pc' = "online"
    /\ UNCHANGED << cpu, cpu_online_map, crashing_cpu, waiting_to_crash,
                    nmi_callback, idt_nmi, idt_mc_ist, nmi_pending,
                    lapic_enabled, msecs, report, pcidevs_lock,
                    x2apic_enabled, info >>
    /\ UNCHANGED remoteVars

\* crash.c:168  iommu_crash_shutdown()
IommuCrashShutdown ==
    /\ pc = "iommu"
    /\ calls' = Append(calls, "iommu_crash_shutdown")
    /\ pc' = "online"
    /\ UNCHANGED << cpu, cpu_online_map, crashing_cpu, waiting_to_crash,
                    nmi_callback, idt_nmi, idt_mc_ist, nmi_pending,
                    lapic_enabled,
                    msecs, report, pcidevs_lock, x2apic_enabled, info >>
    /\ UNCHANGED remoteVars

\* Variant of CoordinatorOnline that takes the coordinator as online.
CoordinatorOnlineAssumed == TRUE

\* crash.c:170  if ( cpu_online(cpu) )
CoordinatorOnline == cpu \in cpu_online_map

\* crash.c:170-179  __stop_this_cpu(); x2apic_enabled = (mode == X2APIC);
\* The mode is what the hardware reports after the local shutdown.
StopCoordinator ==
    /\ pc = "online"
    /\ IF CoordinatorOnline
       THEN /\ \E mode \in ApicModes :
                   x2apic_enabled' = (mode = "APIC_MODE_X2APIC")
            /\ cpu_online_map' = StopThisCpuOnline(cpu)
            /\ lapic_enabled' = StopThisCpuLapic(cpu)
            /\ calls' = Append(calls, "__stop_this_cpu")
            /\ pc' = "trylock"
       ELSE /\ pc' = "save_info"
            /\ UNCHANGED << x2apic_enabled, cpu_online_map, lapic_enabled, calls >>
    /\ UNCHANGED << cpu, crashing_cpu, waiting_to_crash, nmi_callback, idt_nmi,
                    idt_mc_ist, nmi_pending, msecs, report, pcidevs_lock,
                    info >>
    /\ UNCHANGED remoteVars

\* pcidevs_trylock(): succeeds when the lock is free at the time of the call.
TryLockSucceeds(found) == found = "free"

\* crash.c:181  if ( pcidevs_trylock() ).  found is the state the lock is in
\* at that moment: free, or held by another processor (frozen by the NMI or
\* not); the coordinator does not wait for it.
PcidevsTrylock ==
    /\ pc = "trylock"
    /\ \E found \in {"free", "held_by_other"} :
          IF TryLockSucceeds(found)
          THEN pcidevs_lock' = "held_by_coordinator" /\ pc' = "msi"
          ELSE pcidevs_lock' = found /\ pc' = "io_apic"
    /\ calls' = Append(calls, "pcidevs_trylock")
    /\ UNCHANGED << cpu, cpu_online_map, crashing_cpu, waiting_to_crash,
                    nmi_callback, idt_nmi, idt_mc_ist, nmi_pending,
                    lapic_enabled,
                    msecs, report, x2apic_enabled, info >>
    /\ UNCHANGED remoteVars

\* crash.c:187  pci_disable_msi_all()
PciDisableMsiAll ==
    /\ pc = "msi"
    /\ calls' = Append(calls, "pci_disable_msi_all")
    /\ pc' = "pci_unlock"
    /\ UNCHANGED << cpu, cpu_online_map, crashing_cpu, waiting_to_crash,
                    nmi_callback, idt_nmi, idt_mc_ist, nmi_pending,
                    lapic_enabled,
                    msecs, report, pcidevs_lock, x2apic_enabled, info >>
    /\ UNCHANGED remoteVars

\* Mutant of PcidevsUnlock: the release is left out.
PcidevsUnlockForgotten ==
    /\ pc = "pci_unlock"
    /\ pc' = "io_apic"
    /\ UNCHANGED << cpu, cpu_online_map, crashing_cpu, waiting_to_crash,
                    nmi_callback, idt_nmi, idt_mc_ist, nmi_pending,
                    lapic_enabled,
                    msecs, calls, report, pcidevs_lock, x2apic_enabled, info >>
    /\ UNCHANGED remoteVars

\* crash.c:188  pcidevs_unlock()
PcidevsUnlock ==
    /\ pc = "pci_unlock"
    /\ pcidevs_lock' = "free"
    /\ calls' = Append(calls, "pcidevs_unlock")
    /\ pc' = "io_apic"
    /\ UNCHANGED << cpu, cpu_online_map, crashing_cpu, waiting_to_crash,
                    nmi_callback, idt_nmi, idt_mc_ist, nmi_pending,
                    lapic_enabled,
                    msecs, report, x2apic_enabled, info >>
    /\ UNCHANGED remoteVars

\* crash.c:191-193  disable_IO_APIC(); hpet_disable(); iommu_quiesce();
QuiesceDevices ==
    /\ pc = "io_apic"
    /\ calls' = calls \o << "disable_IO_APIC", "hpet_disable", "iommu_quiesce" >>
    /\ pc' = "save_info"
    /\ UNCHANGED << cpu, cpu_online_map, crashing_cpu, waiting_to_crash,
                    nmi_callback, idt_nmi, idt_mc_ist, nmi_pending,
                    lapic_enabled,
                    msecs, report, pcidevs_lock, x2apic_enabled, info >>
    /\ UNCHANGED remoteVars

(* ----------------------- machine_crash_shutdown ----------------------- *)

\* crash.c:203-206  info = kexec_crash_save_info();
\*                  info->xen_phys_start = ...;
\*                  info->dom0_pfn_to_mfn_frame_list_list = ...;
\* Mutant of WriteInfo: the frame list reference is left unwritten.
WriteInfoStartOnly(rec) ==
    [xen_phys_start |-> rec.xen_phys_start + 1,
     dom0_pfn_to_mfn_frame_list_list |-> rec.dom0_pfn_to_mfn_frame_list_list]

WriteInfo(rec) ==
    [xen_phys_start |-> rec.xen_phys_start + 1,
     dom0_pfn_to_mfn_frame_list_list |-> rec.dom0_pfn_to_mfn_frame_list_list + 1]

SaveCrashInfo ==
    /\ pc = "save_info"
    /\ info' = WriteInfo(info)
    /\ calls' = Append(calls, "kexec_crash_save_info")
    /\ pc' = "returned"
    /\ UNCHANGED << cpu, cpu_online_map, crashing_cpu, waiting_to_crash,
                    nmi_callback, idt_nmi, idt_mc_ist, nmi_pending,
                    lapic_enabled,
                    msecs, report, pcidevs_lock, x2apic_enabled >>
    /\ UNCHANGED remoteVars

Coordinator ==
    \/ RecordCrashingCpu
    \/ ComputeWaiting
    \/ ReprogramVectors
    \/ SetNmiCallback
    \/ SendNmi
    \/ PollTest
    \/ PollDelay
    \/ ConsoleForceUnlock
    \/ ReportTest
    \/ PrintAll
    \/ PrintFailed
    \/ IommuCrashShutdown
    \/ StopCoordinator
    \/ PcidevsTrylock
    \/ PciDisableMsiAll
    \/ PcidevsUnlock
    \/ QuiesceDevices
    \/ SaveCrashInfo

(* ------------------- do_nmi_crash (remote handler) -------------------- *)

\* Mutant of SaveBranch: the done flag is not consulted.
SaveBranchAlways(c) == "save"

\* crash.c:50  if ( !this_cpu(crash_save_done) ): the branch an entry takes.
SaveBranch(c) == IF ~crash_save_done[c] THEN "save" ELSE "skip"

\* Mutant of HandlerEntry: every entry runs the save path from line 66.
HandlerEntryFromTop(c) == "set_ist"

\* crash.c:50-90  where an entry continues: line 66 or line 90.
HandlerEntry(c) == IF SaveBranch(c) = "save" THEN "set_ist" ELSE "self_nmi"

\* The broadcast NMI is taken by processor c: do_nmi() calls the registered
\* callback do_nmi_crash (crash.c:41-50).  A processor whose NMI vector is
\* bound to trap_nop does not reach the callback.
NmiDeliver(c) ==
    /\ nmi_pending[c]
    /\ rpc[c] = "running"
    /\ nmi_callback = "do_nmi_crash"
    /\ idt_nmi[c] = "nmi"
    /\ nmi_pending' = [nmi_pending EXCEPT ![c] = FALSE]
    /\ entered' = [entered EXCEPT ![c] = @ + 1]
    /\ rpc' = [rpc EXCEPT ![c] = HandlerEntry(c)]
    /\ branch' = [branch EXCEPT ![c] = SaveBranch(c)]
    /\ UNCHANGED << cpu_online_map, waiting_to_crash, idt_nmi, idt_mc_ist,
                    lapic_enabled, crash_save_done, self_nmi, apic_mode,
                    reentries, saved, done_writes >>
    /\ UNCHANGED coordVars

\* crash.c:75-88: the NMI latch of processor c is cleared while it is inside
\* do_nmi_crash (e.g. by the IRET of a non-fatal MCE) and a pending NMI -- the
\* self-targeted one queued at lines 94-109, or one from another source --
\* enters do_nmi_crash again.  The interrupted entry never resumes, because
\* the handler does not return.
NmiReenter(c) ==
    /\ rpc[c] # "running"
    /\ reentries < MaxReentry
    /\ nmi_callback = "do_nmi_crash"
    /\ idt_nmi[c] = "nmi"
    /\ reentries' = reentries + 1
    /\ entered' = [entered EXCEPT ![c] = @ + 1]
    /\ self_nmi' = [self_nmi EXCEPT ![c] = 0]
    /\ apic_mode' = [apic_mode EXCEPT ![c] = "unread"]
    /\ rpc' = [rpc EXCEPT ![c] = HandlerEntry(c)]
    /\ branch' = [branch EXCEPT ![c] = SaveBranch(c)]
    /\ UNCHANGED << cpu_online_map, waiting_to_crash, idt_nmi, idt_mc_ist,
                    nmi_pending, lapic_enabled, crash_save_done, saved,
                    done_writes >>
    /\ UNCHANGED coordVars

\* crash.c:66  set_ist(&per_cpu(idt, cpu)[X86_EXC_MC], IST_NONE)
SetIst(c) ==
    /\ rpc[c] = "set_ist"
    /\ idt_mc_ist' = [idt_mc_ist EXCEPT ![c] = FALSE]
    /\ rpc' = [rpc EXCEPT ![c] = "save"]
    /\ UNCHANGED << cpu_online_map, waiting_to_crash, idt_nmi, nmi_pending,
                    lapic_enabled, crash_save_done, self_nmi, entered, branch,
                    apic_mode, reentries,
                    saved, done_writes >>
    /\ UNCHANGED coordVars

\* Variant of CrashSaveCpu that goes on to the shutdown without capturing.
CrashSaveCpuOmitted(c) ==
    /\ rpc[c] = "save"
    /\ rpc' = [rpc EXCEPT ![c] = "stop"]
    /\ UNCHANGED << cpu_online_map, waiting_to_crash, idt_nmi, idt_mc_ist,
                    nmi_pending, lapic_enabled, crash_save_done, self_nmi,
                    entered, branch, apic_mode, reentries, saved,
                    done_writes >>
    /\ UNCHANGED coordVars

\* crash.c:68  kexec_crash_save_cpu()
CrashSaveCpu(c) ==
    /\ rpc[c] = "save"
    /\ saved' = [saved EXCEPT ![c] = @ + 1]
    /\ rpc' = [rpc EXCEPT ![c] = "stop"]
    /\ UNCHANGED << cpu_online_map, waiting_to_crash, idt_nmi, idt_mc_ist,
                    nmi_pending, lapic_enabled, crash_save_done, self_nmi,
                    entered, branch, apic_mode, reentries, done_writes >>
    /\ UNCHANGED coordVars

\* crash.c:69  __stop_this_cpu()
StopRemote(c) ==
    /\ rpc[c] = "stop"
    /\ cpu_online_map' = StopThisCpuOnline(c)
    /\ lapic_enabled' = StopThisCpuLapic(c)
    /\ rpc' = [rpc EXCEPT ![c] = "set_done"]
    /\ UNCHANGED << waiting_to_crash, idt_nmi, idt_mc_ist, nmi_pending,
                    crash_save_done, self_nmi, entered, branch, apic_mode,
                    reentries, saved,
                    done_writes >>
    /\ UNCHANGED coordVars

\* crash.c:71  this_cpu(crash_save_done) = true
DoneFlagStore(c) == [crash_save_done EXCEPT ![c] = TRUE]

SetDone(c) ==
    /\ rpc[c] = "set_done"
    /\ crash_save_done' = DoneFlagStore(c)
    /\ done_writes' = [done_writes EXCEPT ![c] = @ + 1]
    /\ rpc' = [rpc EXCEPT ![c] = "clear"]
    /\ UNCHANGED << cpu_online_map, waiting_to_crash, idt_nmi, idt_mc_ist,
                    nmi_pending, lapic_enabled, self_nmi, entered, branch,
                    apic_mode, reentries,
                    saved >>
    /\ UNCHANGED coordVars

\* Variant of ClearCpu that clears the bit of the next processor id.
ClearCpuWrongBit(c) == waiting_to_crash \ {(c + 1) % NCPU}

\* Variant of ClearCpu that clears the whole mask.
ClearCpuWholeMask(c) == {}

\* crash.c:72  cpumask_clear_cpu(cpu, &waiting_to_crash)
ClearCpu(c) == waiting_to_crash \ {c}

ClearWaiting(c) ==
    /\ rpc[c] = "clear"
    /\ waiting_to_crash' = ClearCpu(c)
    /\ rpc' = [rpc EXCEPT ![c] = "self_nmi"]
    /\ UNCHANGED << cpu_online_map, idt_nmi, idt_mc_ist, nmi_pending,
                    lapic_enabled, crash_save_done, self_nmi, entered, branch,
                    apic_mode, reentries,
                    saved, done_writes >>
    /\ UNCHANGED coordVars

\* Variant of IcrWrites that writes the ICR whatever the addressing mode.
IcrWritesAnyMode(mode) == 1

\* crash.c:90-113  number of self-targeted NMIs written to the ICR for the
\* addressing mode current_local_apic_mode() reports.
IcrWrites(mode) ==
    IF mode \in {"APIC_MODE_X2APIC", "APIC_MODE_XAPIC"} THEN 1 ELSE 0

\* Variant of SelfNmi in which the handler returns instead of halting.
SelfNmiReturns(c) ==
    /\ rpc[c] = "self_nmi"
    /\ \E mode \in ApicModes :
          /\ apic_mode' = [apic_mode EXCEPT ![c] = mode]
          /\ self_nmi' = [self_nmi EXCEPT ![c] = IcrWrites(mode)]
    /\ rpc' = [rpc EXCEPT ![c] = "running"]
    /\ UNCHANGED << cpu_online_map, waiting_to_crash, idt_nmi, idt_mc_ist,
                    nmi_pending, lapic_enabled, crash_save_done, entered,
                    branch, reentries, saved, done_writes >>
    /\ UNCHANGED coordVars

\* crash.c:90-116  the self-latch step, then for ( ; ; ) halt();
SelfNmi(c) ==
    /\ rpc[c] = "self_nmi"
    /\ \E mode \in ApicModes :
          /\ apic_mode' = [apic_mode EXCEPT ![c] = mode]
          /\ self_nmi' = [self_nmi EXCEPT ![c] = IcrWrites(mode)]
    /\ rpc' = [rpc EXCEPT ![c] = "halt"]
    /\ UNCHANGED << cpu_online_map, waiting_to_crash, idt_nmi, idt_mc_ist,
                    nmi_pending, lapic_enabled, crash_save_done, entered,
                    branch,
                    reentries, saved, done_writes >>
    /\ UNCHANGED coordVars

FirstEntry(c) ==
    \/ NmiDeliver(c)
    \/ SetIst(c)
    \/ CrashSaveCpu(c)
    \/ StopRemote(c)
    \/ SetDone(c)
    \/ ClearWaiting(c)
    \/ SelfNmi(c)

Remote(c) ==
    \/ FirstEntry(c)
    \/ NmiReenter(c)

(* --------------------------- specification ---------------------------- *)

Next ==
    \/ Coordinator
    \/ \E c \in CPUS : Remote(c)

Spec == Init /\ [][Next]_vars

\* The coordinator runs with interrupts disabled on a processor that keeps
\* executing: its next step is eventually taken.  Nothing is assumed of the
\* remote processors.
SpecFair == Init /\ [][Next]_vars /\ WF_vars(Coordinator)

\* crash.c:41-117  do_nmi_crash runs with interrupts off and never blocks
\* on another processor: a processor that can take a step of it does.
SpecHandlerFair ==
    Init /\ [][Next]_vars /\ \A c \in PresentCpus : WF_vars(FirstEntry(c))

\* The four-processor scenarios, every processor taking the NMI at most once.
NextScenario ==
    \/ Coordinator
    \/ \E c \in CPUS : FirstEntry(c)

SpecScenario == InitScenario /\ [][NextScenario]_vars

(* ------------------------- derived quantities ------------------------- *)

\* Positions of the coordinator before msecs is set at line 143.
BeforePoll == {"start", "mask", "gate", "callback", "send"}

\* Number of completed mdelay(1) calls of the poll loop.
DelaysDone == IF pc \in BeforePoll THEN 0 ELSE MSECS - msecs

\* The coordinator has called collaborator x.
Called(x) == \E i \in 1 .. Len(calls) : calls[i] = x

\* The last n calls of the coordinator.
LastCalls(n) ==
    IF Len(calls) < n THEN << >> ELSE SubSeq(calls, Len(calls) - n + 1, Len(calls))

\* How many times the coordinator has called x, and the positions of the
\* calls of x in the order the coordinator made them.
Count(x) == Cardinality({i \in 1 .. Len(calls) : calls[i] = x})

Positions(x) == {i \in 1 .. Len(calls) : calls[i] = x}

\* crash.c:143-207  the positions of nmi_shootdown_cpus and of its caller
\* after the poll loop, from line 154 on and from line 170 on.
AfterPoll ==
    {"console", "report", "print_all", "print_failed", "iommu", "online",
     "trylock", "msi", "pci_unlock", "io_apic", "save_info", "returned"}

AfterIommu ==
    {"online", "trylock", "msi", "pci_unlock", "io_apic", "save_info",
     "returned"}

\* crash.c:131  processor c was put in waiting_to_crash by the coordinator:
\* it is not the coordinator and was online at line 131 (it is still online,
\* or it has entered do_nmi_crash, the only place that takes it offline).
WasPending(c) ==
    /\ pc \notin {"start", "mask"}
    /\ c # cpu
    /\ (c \in cpu_online_map \/ entered[c] > 0)

\* Processor c has some entry of do_nmi_crash in progress or halted.
InHandler(c) == rpc[c] # "running"

(* ------------------------------- claims ------------------------------- *)

\* C1: the coordinator leaves the poll loop only on a test that found
\* waiting_to_crash empty or with exactly 1000 delays done; the number of
\* delays never exceeds 1000, and a delay is only started after a test that
\* found the set non-empty with fewer than 1000 delays done.
C1_PollExit ==
    [][ /\ (pc = "poll" /\ pc' = "console") =>
              (waiting_to_crash = {} \/ DelaysDone = MSECS)
        /\ (pc = "poll" /\ pc' = "mdelay") =>
              (waiting_to_crash # {} /\ DelaysDone < MSECS)
        /\ (pc # "poll" /\ pc' = "console") => pc = "console"
        /\ DelaysDone' \in 0 .. MSECS
        /\ DelaysDone' \in {DelaysDone, DelaysDone + 1} ]_vars

\* C1 witness: the loop was left on timeout, a processor still pending.
C1_Witness == pc = "console" /\ waiting_to_crash # {} /\ DelaysDone = MSECS

\* C2: crashing_cpu is never a member of waiting_to_crash.
C2_CoordinatorNotPending == crashing_cpu \notin waiting_to_crash

\* C2 witness: the crashing processor is online, the set was computed and
\* another processor is pending while its handler runs.
C2_Witness ==
    /\ cpu \in cpu_online_map
    /\ crashing_cpu = cpu
    /\ \E c \in waiting_to_crash : InHandler(c)

\* C3: crash_save_done of a processor is stored to at most once, and only
\* goes from false to true.
C3_DoneFlagWriteOnce ==
    [][ \A c \in CPUS :
          /\ crash_save_done[c] => crash_save_done'[c]
          /\ done_writes'[c] <= 1
          /\ done_writes'[c] # done_writes[c] =>
                (~crash_save_done[c] /\ crash_save_done'[c]) ]_vars

\* C3 witness: the handler was entered again on a processor whose flag is set.
C3_Witness == \E c \in CPUS : crash_save_done[c] /\ entered[c] >= 2

\* C4: an entry of do_nmi_crash that finds the done flag set goes to line 90
\* and from there to the halt loop; it leaves the processor's captures, its
\* local APIC and online bit, its done flag and its bit of waiting_to_crash
\* as they are, and queues exactly one self-NMI when the mode is recognized.
C4_FlaggedEntrySkips ==
    [][ \A c \in CPUS :
          /\ (entered'[c] # entered[c] /\ crash_save_done[c]) =>
                (branch'[c] = "skip" /\ rpc'[c] = "self_nmi")
          /\ (branch'[c] = "skip") =>
                /\ rpc'[c] \in {"self_nmi", "halt"}
                /\ saved'[c] = saved[c]
                /\ lapic_enabled'[c] = lapic_enabled[c]
                /\ (c \in cpu_online_map') = (c \in cpu_online_map)
                /\ crash_save_done'[c] = crash_save_done[c]
                /\ done_writes'[c] = done_writes[c]
                /\ idt_mc_ist'[c] = idt_mc_ist[c]
                /\ (c \in waiting_to_crash') = (c \in waiting_to_crash)
          /\ (branch[c] = "skip" /\ rpc[c] = "self_nmi" /\ rpc'[c] = "halt") =>
                self_nmi'[c] =
                   (IF apic_mode'[c] = "APIC_MODE_DISABLED" THEN 0 ELSE 1) ]_vars

\* C4 witness: a second entry found the flag set and reached the halt loop
\* with its self-NMI queued.
C4_Witness ==
    \E c \in CPUS :
       /\ entered[c] = 2 /\ branch[c] = "skip" /\ rpc[c] = "halt"
       /\ self_nmi[c] = 1 /\ saved[c] = 1

\* C5: kexec_crash_save_cpu() is called at most once on every processor.
C5_SaveAtMostOnce == \A c \in CPUS : saved[c] <= 1

\* C6: the two fields of the crash metadata record are stored to exactly once
\* each by the time machine_crash_shutdown returns, and not at all before
\* nmi_shootdown_cpus has returned.
C6_InfoWrittenOnce ==
    /\ pc = "returned" =>
          (info.xen_phys_start = 1 /\ info.dom0_pfn_to_mfn_frame_list_list = 1)
    /\ pc # "returned" =>
          (info.xen_phys_start = 0 /\ info.dom0_pfn_to_mfn_frame_list_list = 0)

\* C6 witness: returned after a timeout, a processor still pending.
C6_Witness ==
    /\ pc = "returned"
    /\ report.printed = "failed"
    /\ waiting_to_crash # {}
    /\ DelaysDone = MSECS

\* C7: machine_crash_shutdown returns in every execution in which the
\* coordinator keeps running, whatever the remote processors do or fail to do
\* and whatever the state of the device-list lock.
C7_Terminates == <>(pc = "returned")

\* C7 witness: returned although a pending processor never took the NMI and
\* the device-list lock was held by somebody else.
C7_Witness ==
    /\ pc = "returned"
    /\ pcidevs_lock = "held_by_other"
    /\ \E c \in waiting_to_crash : ~InHandler(c)

\* C8: the outcome printed is success exactly when waiting_to_crash is empty
\* as it is printed; otherwise the processors listed are those in
\* waiting_to_crash, and there is at least one.
C8_ReportMatchesPending ==
    [][ report' # report =>
          /\ (report'.printed = "all") <=> (waiting_to_crash = {})
          /\ report'.printed = "failed" =>
                (report'.cpus = waiting_to_crash /\ report'.cpus # {}) ]_vars

\* C9 as claimed: once every pending processor has removed itself with fewer
\* than 1000 delays done, the loop is left with fewer than 1000 delays done
\* and success is reported.
C9_EarlyExitBelowBound ==
    [][ (pc \notin BeforePoll /\ waiting_to_crash = {} /\ DelaysDone < MSECS) =>
          /\ DelaysDone' < MSECS
          /\ report' # report => report'.printed = "all" ]_vars

\* C9 as amended: a loop test that finds waiting_to_crash empty leaves the
\* loop without another delay; when the set empties during a delay that
\* delay is the last one, so at most 1000 are done; the set stays empty, and
\* a test of line 157 that finds it empty is followed by the success report.
C9_ExitOnEmptyTest ==
    [][ (pc \notin BeforePoll /\ waiting_to_crash = {}) =>
          /\ waiting_to_crash' = {}
          /\ (pc = "poll" /\ pc' # pc) =>
                (pc' = "console" /\ DelaysDone' = DelaysDone)
          /\ (pc = "mdelay" /\ pc' # pc) =>
                (pc' = "poll" /\ DelaysDone' = DelaysDone + 1 /\ DelaysDone' <= MSECS)
          /\ pc \notin {"poll", "mdelay"} => DelaysDone' = DelaysDone
          /\ (pc = "report" /\ pc' # pc) => pc' = "print_all"
          /\ (pc = "print_all" /\ pc' # pc) => report'.printed = "all" ]_vars

\* C9 witness: the three remote processors all halted, the loop was left
\* after some but fewer than 1000 delays, and success was reported.
C9_Witness ==
    /\ report.printed = "all"
    /\ waiting_to_crash = {}
    /\ DelaysDone > 0 /\ DelaysDone < MSECS
    /\ \A c \in CPUS \ {cpu} : rpc[c] = "halt" /\ saved[c] = 1

\* C10: the device-list lock is only try-acquired, which never blocks;
\* pci_disable_msi_all() has only been called with the lock held by the
\* coordinator, which releases it before going on; after a failed try-acquire
\* neither pci_disable_msi_all() nor pcidevs_unlock() is called and the
\* sequence goes on through disable_IO_APIC(), hpet_disable(),
\* iommu_quiesce() and the metadata stores.
C10_TrylockOnly ==
    /\ pc = "trylock" => ENABLED PcidevsTrylock
    /\ pc \in {"msi", "pci_unlock"} => pcidevs_lock = "held_by_coordinator"
    /\ Called("pci_disable_msi_all") =>
          \/ pc = "pci_unlock"
          \/ Called("pcidevs_unlock") /\ pcidevs_lock = "free"
    /\ pc \in {"io_apic", "save_info", "returned"} =>
          pcidevs_lock # "held_by_coordinator"
    /\ pcidevs_lock = "held_by_other" =>
          /\ pc \in {"io_apic", "save_info", "returned"}
          /\ ~Called("pci_disable_msi_all")
          /\ ~Called("pcidevs_unlock")
          /\ pc = "returned" =>
                /\ LastCalls(5) = << "pcidevs_trylock", "disable_IO_APIC",
                                     "hpet_disable", "iommu_quiesce",
                                     "kexec_crash_save_info" >>
                /\ info.xen_phys_start = 1
                /\ info.dom0_pfn_to_mfn_frame_list_list = 1

\* C10 witness: the try-acquire failed and the sequence completed.
C10_Witness ==
    /\ pc = "returned"
    /\ pcidevs_lock = "held_by_other"
    /\ Called("iommu_quiesce")

\* ------------------------------------------------------------------------
\* C11: when current_local_apic_mode() reports neither x2APIC nor xAPIC,
\* the self-latch step of do_nmi_crash writes no ICR and still ends in the
\* halt loop, on a first entry and on a later entry alike; a first entry
\* that reads such a mode has still disabled the MC stack, captured the
\* state, shut the processor down, set the flag and left the waiting set.
C11_NoIcrWriteInOtherMode ==
    [][\A c \in CPUS :
          (rpc[c] = "self_nmi" /\ rpc'[c] # rpc[c]
                               /\ entered'[c] = entered[c]) =>
             /\ rpc'[c] = "halt"
             /\ apic_mode'[c] \in ApicModes
             /\ (apic_mode'[c] = "APIC_MODE_DISABLED") => self_nmi'[c] = 0
             /\ (apic_mode'[c] = "APIC_MODE_DISABLED"
                    /\ branch[c] = "save") =>
                   /\ ~idt_mc_ist'[c]
                   /\ saved'[c] >= 1
                   /\ ~lapic_enabled'[c]
                   /\ c \notin cpu_online_map'
                   /\ crash_save_done'[c]
                   /\ c \notin waiting_to_crash']_vars

\* A processor halted on a later (flag already set) entry that read a mode
\* other than x2APIC and xAPIC, with no ICR write.
C11_Witness ==
    \E c \in CPUS :
        /\ rpc[c] = "halt"
        /\ apic_mode[c] = "APIC_MODE_DISABLED"
        /\ self_nmi[c] = 0
        /\ entered[c] = 2
        /\ branch[c] = "skip"

\* ------------------------------------------------------------------------
\* C12: in nmi_shootdown_cpus the coordinator's NMI vector is rebound to
\* the no-op handler, the dedicated stack of its MC vector is disabled and
\* do_nmi_crash is registered as the NMI callback before the broadcast is
\* sent: whenever the broadcast has been sent, and whenever a processor
\* has the broadcast NMI pending, all three are in place.
C12_SetupBeforeBroadcast ==
    (pc \notin BeforePoll \/ \E c \in CPUS : nmi_pending[c]) =>
        /\ idt_nmi[cpu] = "trap_nop"
        /\ ~idt_mc_ist[cpu]
        /\ nmi_callback = "do_nmi_crash"

\* The broadcast has just been sent and is pending on a remote processor.
C12_Witness ==
    /\ pc = "poll"
    /\ msecs = MSECS
    /\ \E c \in CPUS : c # cpu /\ nmi_pending[c]

\* ------------------------------------------------------------------------
\* C13: ASSERT(cpu != crashing_cpu) at crash.c:47 holds at every entry of
\* do_nmi_crash: the processor entering the handler is never the one
\* recorded in crashing_cpu, nor the one running nmi_shootdown_cpus, and
\* crashing_cpu was written (and the broadcast sent) before the entry.
C13_HandlerNotOnCrashingCpu ==
    [][\A c \in CPUS :
          entered'[c] # entered[c] =>
             /\ c # crashing_cpu'
             /\ c # cpu
             /\ crashing_cpu = cpu
             /\ idt_nmi[cpu] = "trap_nop"
             /\ pc \notin BeforePoll]_vars

\* The handler has been entered on processor 0 while processor 1 is the
\* coordinator, so crashing_cpu differs from its initial value.
C13_Witness ==
    /\ cpu = 1
    /\ crashing_cpu = 1
    /\ entered[0] >= 1
    /\ InHandler(0)

\* ------------------------------------------------------------------------
\* C14: a remote processor captures its state only after disabling the
\* dedicated stack of its MC vector, shuts itself down only after the
\* capture, sets its done flag only after the shutdown and leaves
\* waiting_to_crash only after setting the flag; hence every processor
\* that was put in waiting_to_crash and is no longer in it has its flag
\* set, its state captured and its local APIC shut down.
C14_RemovalIsLast ==
    [][\A c \in CPUS :
          /\ saved'[c] # saved[c] => ~idt_mc_ist[c]
          /\ (c # cpu /\ lapic_enabled'[c] # lapic_enabled[c]) =>
                (saved[c] >= 1 /\ ~idt_mc_ist[c])
          /\ done_writes'[c] # done_writes[c] =>
                (saved[c] >= 1 /\ ~lapic_enabled[c]
                               /\ c \notin cpu_online_map)
          /\ (c \in waiting_to_crash /\ c \notin waiting_to_crash') =>
                (crash_save_done[c] /\ saved[c] >= 1 /\ ~lapic_enabled[c]
                                    /\ ~idt_mc_ist[c])
          /\ (WasPending(c)' /\ c \notin waiting_to_crash') =>
                (crash_save_done'[c] /\ saved'[c] >= 1
                                     /\ ~lapic_enabled'[c]
                                     /\ c \notin cpu_online_map')]_vars

\* A processor that was waited for has removed itself while the
\* coordinator is still polling.
C14_Witness ==
    \E c \in CPUS :
        /\ WasPending(c)
        /\ c \notin waiting_to_crash
        /\ crash_save_done[c]
        /\ pc \in {"poll", "mdelay"}

\* ------------------------------------------------------------------------
\* C15: once the coordinator's poll has ended, on either exit, no
\* processor modifies waiting_to_crash again.
C15_FrozenAfterPoll ==
    [][(pc \notin BeforePoll \cup {"poll", "mdelay"}) =>
          waiting_to_crash' = waiting_to_crash]_vars

\* C15, amended: once the poll has ended the coordinator does not write
\* waiting_to_crash; a set found empty stays empty; after a timeout the
\* only changes are late removals, each by a processor completing the
\* save branch of do_nmi_crash and taking out exactly its own id.
C15_OnlyLateRemovalsAfterPoll ==
    [][(pc \notin BeforePoll \cup {"poll", "mdelay"}) =>
          /\ waiting_to_crash' \subseteq waiting_to_crash
          /\ pc' # pc => waiting_to_crash' = waiting_to_crash
          /\ \A c \in CPUS :
                /\ (c \in waiting_to_crash /\ c \notin waiting_to_crash') =>
                      /\ rpc[c] = "clear"
                      /\ rpc'[c] = "self_nmi"
                      /\ crash_save_done[c]
                      /\ waiting_to_crash' = waiting_to_crash \ {c}
                /\ (rpc[c] = "clear" /\ rpc'[c] = "self_nmi"
                                      /\ entered'[c] = entered[c]) =>
                      c \notin waiting_to_crash']_vars

\* A processor removed itself after the coordinator had timed out and
\* printed it as failed.
C15_Witness ==
    /\ report.printed = "failed"
    /\ \E c \in report.cpus :
          /\ c \notin waiting_to_crash
          /\ rpc[c] \in {"self_nmi", "halt"}

\* ------------------------------------------------------------------------
\* C16: line 131 sets waiting_to_crash to the online processors other than
\* the coordinator; from then on the set only shrinks, every change
\* removes exactly one id, that of the processor executing line 72, and
\* every member is a processor that line 131 put in.
C16_OnlyShrinks ==
    [][/\ (pc = "mask" /\ pc' # pc) =>
             waiting_to_crash' = cpu_online_map \ {cpu}
       /\ (pc \notin {"start", "mask"}) =>
             /\ waiting_to_crash' \subseteq waiting_to_crash
             /\ \A c \in waiting_to_crash' : WasPending(c)'
             /\ waiting_to_crash' # waiting_to_crash =>
                   \E c \in waiting_to_crash :
                       /\ waiting_to_crash' = waiting_to_crash \ {c}
                       /\ rpc[c] = "clear"
                       /\ rpc'[c] = "self_nmi"]_vars

\* Two processors have removed themselves and a third is still waited for.
C16_Witness ==
    /\ Cardinality({c \in CPUS : WasPending(c)}) = 3
    /\ Cardinality(waiting_to_crash) = 1
    /\ \E c \in waiting_to_crash : rpc[c] = "clear"

\* ------------------------------------------------------------------------
\* C17: a processor leaves RUNNING only by entering do_nmi_crash, into the
\* save branch when its flag is false and straight into the self-latch
\* tail when it is true; the save branch is followed in order and leads to
\* the tail, the tail to the halt loop; the halt loop is left only by a new
\* entry; no step returns to RUNNING; and from some point on no processor
\* is between a handler entry and the halt loop, so that, none returning
\* to RUNNING, every processor that entered the handler ends halted.
C17_StateMachine ==
    /\ [][\A c \in CPUS :
             /\ InHandler(c) => InHandler(c)'
             /\ (~InHandler(c) /\ InHandler(c)') =>
                   /\ entered'[c] = entered[c] + 1
                   /\ rpc'[c] = IF crash_save_done[c] THEN "self_nmi"
                                                      ELSE "set_ist"
             /\ (rpc[c] = "halt" /\ rpc'[c] # "halt") =>
                   entered'[c] = entered[c] + 1
             /\ (rpc'[c] # rpc[c] /\ entered'[c] = entered[c]) =>
                   << rpc[c], rpc'[c] >> \in
                       { << "set_ist", "save" >>, << "save", "stop" >>,
                         << "stop", "set_done" >>, << "set_done", "clear" >>,
                         << "clear", "self_nmi" >>,
                         << "self_nmi", "halt" >> }]_vars
    /\ <>[](\A c \in CPUS : rpc[c] \in {"running", "halt"})

\* A processor halted at the end of a first entry that took the save
\* branch and latched itself in xAPIC mode.
C17_Witness ==
    \E c \in CPUS :
        /\ rpc[c] = "halt"
        /\ entered[c] = 1
        /\ branch[c] = "save"
        /\ apic_mode[c] = "APIC_MODE_XAPIC"
        /\ self_nmi[c] = 1

\* ------------------------------------------------------------------------
\* C18: whatever the outcome, console_force_unlock is called exactly once,
\* after the poll loop has ended and before the outcome is printed, and
\* iommu_crash_shutdown exactly once, after the outcome is printed.
C18_UnlockReportIommuOnce ==
    /\ Count("console_force_unlock") =
          (IF pc \in AfterPoll \ {"console"} THEN 1 ELSE 0)
    /\ Count("printk") = (IF pc \in AfterIommu \cup {"iommu"} THEN 1 ELSE 0)
    /\ Count("iommu_crash_shutdown") = (IF pc \in AfterIommu THEN 1 ELSE 0)
    /\ (report.printed # "none") <=> (Count("printk") = 1)
    /\ \A i \in Positions("console_force_unlock") :
          /\ \A j \in Positions("printk") : i < j
          /\ \A j \in Positions("disable_lapic_nmi_watchdog") : j < i
    /\ \A i \in Positions("iommu_crash_shutdown") :
          /\ \A j \in Positions("printk") : j < i
          /\ \A j \in Positions("__stop_this_cpu") : i < j
          /\ \A j \in Positions("kexec_crash_save_info") : i < j
    /\ (pc \in BeforePoll \cup {"poll", "mdelay"}) =>
          (Count("console_force_unlock") = 0 /\ report.printed = "none")

\* The sequence has returned after reporting a processor that failed to
\* stop, with one console reset and one iommu_crash_shutdown.
C18_Witness ==
    /\ pc = "returned"
    /\ report.printed = "failed"
    /\ report.cpus # {}
    /\ Count("console_force_unlock") = 1
    /\ Count("iommu_crash_shutdown") = 1

\* ------------------------------------------------------------------------
\* C19: at line 170 the coordinator goes through its own __stop_this_cpu(),
\* the x2APIC mode store, the MSI-disable attempt, disable_IO_APIC(),
\* hpet_disable() and iommu_quiesce() if and only if it is marked online
\* at that point; when it is, the last three are each called exactly once,
\* in that order, whatever the try-lock returned; when it is not, none of
\* them is called and the metadata is still populated.
C19_QuiesceIffOnline ==
    [][/\ (pc = "online" /\ pc' # pc) =>
             IF cpu \in cpu_online_map
             THEN /\ pc' = "trylock"
                  /\ calls' = Append(calls, "__stop_this_cpu")
                  /\ cpu \notin cpu_online_map'
                  /\ ~lapic_enabled'[cpu]
             ELSE /\ pc' = "save_info"
                  /\ calls' = calls
                  /\ x2apic_enabled' = x2apic_enabled
       /\ (pc' = "returned" /\ pc # "returned") =>
             /\ info'.xen_phys_start = 1
             /\ info'.dom0_pfn_to_mfn_frame_list_list = 1
             /\ cpu \notin cpu_online_map'
             /\ IF Called("__stop_this_cpu")
                THEN /\ Count("__stop_this_cpu")' = 1
                     /\ Count("pcidevs_trylock")' = 1
                     /\ Count("pci_disable_msi_all")' <= 1
                     /\ Count("disable_IO_APIC")' = 1
                     /\ Count("hpet_disable")' = 1
                     /\ Count("iommu_quiesce")' = 1
                     /\ LastCalls(4)' = << "disable_IO_APIC", "hpet_disable",
                                           "iommu_quiesce",
                                           "kexec_crash_save_info" >>
                     /\ \A i \in Positions("__stop_this_cpu")' :
                           \A j \in Positions("pcidevs_trylock")' : i < j
                ELSE /\ Count("pcidevs_trylock")' = 0
                     /\ Count("pci_disable_msi_all")' = 0
                     /\ Count("pcidevs_unlock")' = 0
                     /\ Count("disable_IO_APIC")' = 0
                     /\ Count("hpet_disable")' = 0
                     /\ Count("iommu_quiesce")' = 0
                     /\ ~x2apic_enabled'
                     /\ lapic_enabled'[cpu]
                     /\ LastCalls(2)' = << "iommu_crash_shutdown",
                                           "kexec_crash_save_info" >>]_vars

\* The sequence has returned on a coordinator that was not marked online:
\* no local shutdown, no device quiescing, metadata populated.
C19_Witness ==
    /\ pc = "returned"
    /\ ~Called("__stop_this_cpu")
    /\ ~Called("disable_IO_APIC")
    /\ info.xen_phys_start = 1
    /\ info.dom0_pfn_to_mfn_frame_list_list = 1

\* ------------------------------------------------------------------------
\* C20: whenever the coordinator has reported that all processors were
\* shot down, every processor that line 131 put in waiting_to_crash has
\* had its state captured exactly once, has shut itself down, has its done
\* flag set and is not inside the capture or the shutdown step of
\* do_nmi_crash, from the report through the device quiescing.
C20_AllShotDownMeansSavedOnce ==
    (report.printed = "all") =>
        \A c \in CPUS :
            WasPending(c) =>
                /\ saved[c] = 1
                /\ ~lapic_enabled[c]
                /\ c \notin cpu_online_map
                /\ crash_save_done[c]
                /\ rpc[c] \notin {"set_ist", "save", "stop"}

====
